---- MODULE Spec2Model ----
(***************************************************************************)
(* Model of Proyecto_Borrador/second.py (and of Buck_Up/Posicion_Inicail.py *)
(* whose table and composition are the same): the table of relative poses,  *)
(* their composition into absolute poses, the drawing of the initial scene  *)
(* and the animation loop mover_cubo with paint.                            *)
(*                                                                          *)
(* Numbers.  The program computes with float64 and with cos/sin.  The model *)
(* computes exactly: a number is <<a, b, c, d>>, standing for               *)
(*       (a + b*sqrt(2) + c*sqrt(3) + d*sqrt(6)) / Escala.                  *)
(* The cosines and sines of the multiples of 15 degrees live in that field, *)
(* so every matrix the model builds is the exact value of the matrix the    *)
(* program builds, for step counts whose angles are multiples of 15 degrees *)
(* and coordinates that are multiples of 1/6.  Rounding is not modelled.    *)
(***************************************************************************)
EXTENDS Integers, Sequences, FiniteSets, TLC

\* Denominator of every number: 4 for the cosines, 6 for t = paso/(n_pasos-1).
Escala == 4 * 6

Cero == <<0, 0, 0, 0>>
Uno == <<Escala, 0, 0, 0>>

\* The integer k as a number.
Entero(k) == <<k * Escala, 0, 0, 0>>

\* k sixths as a number (the grid of the model's coordinates).
Sexto(k) == <<4 * k, 0, 0, 0>>

Suma(x, y) == <<x[1] + y[1], x[2] + y[2], x[3] + y[3], x[4] + y[4]>>

Resta(x, y) == <<x[1] - y[1], x[2] - y[2], x[3] - y[3], x[4] - y[4]>>

Neg(x) == <<-x[1], -x[2], -x[3], -x[4]>>

\* Whether the product of x and y is a number of the grid (no remainder is dropped).
MulExacta(x, y) ==
    /\ (x[1]*y[1] + 2*x[2]*y[2] + 3*x[3]*y[3] + 6*x[4]*y[4]) % Escala = 0
    /\ (x[1]*y[2] + x[2]*y[1] + 3*(x[3]*y[4] + x[4]*y[3])) % Escala = 0
    /\ (x[1]*y[3] + x[3]*y[1] + 2*(x[2]*y[4] + x[4]*y[2])) % Escala = 0
    /\ (x[1]*y[4] + x[4]*y[1] + x[2]*y[3] + x[3]*y[2]) % Escala = 0

\* The product in Q(sqrt 2, sqrt 3): sqrt2*sqrt3 = sqrt6, sqrt2*sqrt6 = 2 sqrt3,
\* sqrt3*sqrt6 = 3 sqrt2.  It is defined
\* only where it is a number of the grid.
Producto(x, y) ==
    CASE MulExacta(x, y) ->
    << (x[1]*y[1] + 2*x[2]*y[2] + 3*x[3]*y[3] + 6*x[4]*y[4]) \div Escala,
       (x[1]*y[2] + x[2]*y[1] + 3*(x[3]*y[4] + x[4]*y[3])) \div Escala,
       (x[1]*y[3] + x[3]*y[1] + 2*(x[2]*y[4] + x[4]*y[2])) \div Escala,
       (x[1]*y[4] + x[4]*y[1] + x[2]*y[3] + x[3]*y[2]) \div Escala >>

\* The product, its factors evaluated once.
Mul(x, y) == CHOOSE r \in {Producto(a, b) : a \in {x}, b \in {y}} : TRUE

\* paso / (n_pasos - 1) for ints with a non-zero divisor (Python's true division),
\* defined where the quotient is a number of the grid.
Cociente(p, q) == CASE (p * Escala) % q = 0 -> <<(p * Escala) \div q, 0, 0, 0>>

EsRacional(x) == x[2] = 0 /\ x[3] = 0 /\ x[4] = 0

\* Order of two rational numbers.
Menor(x, y) == x[1] < y[1]

MenorIgual(x, y) == x[1] <= y[1]

\* np.radians: degrees to radians.  An angle is kept in units of pi/12 radians,
\* so that radians(90) is the number 6.
radians(grados) == <<(grados * Escala) \div 15, 0, 0, 0>>

\* The multiple of pi/12 an angle is, reduced to one turn.
Indice(angulo) == (angulo[1] \div Escala) % 24

\* Cosine of k*pi/12 for k in 0..6, exact.
CosCuadrante(k) ==
    CASE k = 0 -> <<Escala, 0, 0, 0>>
      [] k = 1 -> <<0, Escala \div 4, 0, Escala \div 4>>
      [] k = 2 -> <<0, 0, Escala \div 2, 0>>
      [] k = 3 -> <<0, Escala \div 2, 0, 0>>
      [] k = 4 -> <<Escala \div 2, 0, 0, 0>>
      [] k = 5 -> <<0, -(Escala \div 4), 0, Escala \div 4>>
      [] k = 6 -> <<0, 0, 0, 0>>

\* Cosine of k*pi/12 for k in 0..23.
CosIndice(k) ==
    CASE k <= 6 -> CosCuadrante(k)
      [] k > 6 /\ k <= 12 -> Neg(CosCuadrante(12 - k))
      [] k > 12 /\ k <= 18 -> Neg(CosCuadrante(k - 12))
      [] k > 18 -> CosCuadrante(24 - k)

\* np.cos and np.sin of an angle that is a whole multiple of pi/12.
cos(angulo) == CASE EsRacional(angulo) /\ angulo[1] % Escala = 0 -> CosIndice(Indice(angulo))

sin(angulo) == CASE EsRacional(angulo) /\ angulo[1] % Escala = 0 -> CosIndice((Indice(angulo) + 18) % 24)

----
\* Matrices: 4 rows of 4 numbers.

identity4 ==
    << <<Uno, Cero, Cero, Cero>>,
       <<Cero, Uno, Cero, Cero>>,
       <<Cero, Cero, Uno, Cero>>,
       <<Cero, Cero, Cero, Uno>> >>

\* The product of two 4x4 arrays, row by column.
FilasPorColumnas(A, B) ==
    [i \in 1..4 |->
        [j \in 1..4 |->
            Suma(Suma(Mul(A[i][1], B[1][j]), Mul(A[i][2], B[2][j])),
                 Suma(Mul(A[i][3], B[3][j]), Mul(A[i][4], B[4][j])))]]

\* The operator @ of two 4x4 arrays, its operands evaluated once.
MatMul(A, B) == CHOOSE r \in {FilasPorColumnas(a, b) : a \in {A}, b \in {B}} : TRUE

\* matrix[0:3, 3] = [tx, ty, tz] on the identity.
create_translation_matrix(tx, ty, tz) ==
    << <<Uno, Cero, Cero, tx>>,
       <<Cero, Uno, Cero, ty>>,
       <<Cero, Cero, Uno, tz>>,
       <<Cero, Cero, Cero, Uno>> >>

\* A rotation builder whose lower row has the wrong sign of the cosine.
create_rotation_matrix_espejo(axis, angle) ==
    LET c == cos(angle)
        s == sin(angle)
    IN  CASE axis = "x" -> << <<Uno, Cero, Cero, Cero>>,
                              <<Cero, c, Neg(s), Cero>>,
                              <<Cero, s, Neg(c), Cero>>,
                              <<Cero, Cero, Cero, Uno>> >>
          [] axis = "y" -> << <<c, Cero, s, Cero>>,
                              <<Cero, Uno, Cero, Cero>>,
                              <<Neg(s), Cero, Neg(c), Cero>>,
                              <<Cero, Cero, Cero, Uno>> >>
          [] axis = "z" -> << <<c, Neg(s), Cero, Cero>>,
                              <<s, Neg(c), Cero, Cero>>,
                              <<Cero, Cero, Uno, Cero>>,
                              <<Cero, Cero, Cero, Uno>> >>
          [] OTHER -> identity4

\* The identity with the 2x2 block of the axis set to [[c, -s], [s, c]]
\* (x, z) or [[c, s], [-s, c]] (y); any other axis leaves the identity.
create_rotation_matrix(axis, angle) ==
    LET c == cos(angle)
        s == sin(angle)
    IN  CASE axis = "x" -> << <<Uno, Cero, Cero, Cero>>,
                              <<Cero, c, Neg(s), Cero>>,
                              <<Cero, s, c, Cero>>,
                              <<Cero, Cero, Cero, Uno>> >>
          [] axis = "y" -> << <<c, Cero, s, Cero>>,
                              <<Cero, Uno, Cero, Cero>>,
                              <<Neg(s), Cero, c, Cero>>,
                              <<Cero, Cero, Cero, Uno>> >>
          [] axis = "z" -> << <<c, Neg(s), Cero, Cero>>,
                              <<s, c, Cero, Cero>>,
                              <<Cero, Cero, Uno, Cero>>,
                              <<Cero, Cero, Cero, Uno>> >>
          [] OTHER -> identity4

\* matrix[:3, 3]: the translation column, as a vector of 3.
Columna(M) == <<M[1][4], M[2][4], M[3][4]>>

\* The 3x3 block matrix[0:3, 0:3].
Bloque(M) == [i \in 1..3 |-> [j \in 1..3 |-> M[i][j]]]

SumaVec(u, v) == <<Suma(u[1], v[1]), Suma(u[2], v[2]), Suma(u[3], v[3])>>

RestaVec(u, v) == <<Resta(u[1], v[1]), Resta(u[2], v[2]), Resta(u[3], v[3])>>

EscalaVec(k, v) == <<Mul(k, v[1]), Mul(k, v[2]), Mul(k, v[3])>>

\* The block of M times the point p, plus the column of M.
BloquePorPunto(M, p) ==
    [i \in 1..3 |->
        Suma(Suma(Mul(M[i][1], p[1]), Mul(M[i][2], p[2])),
             Suma(Mul(M[i][3], p[3]), M[i][4]))]

\* Mesh.transform on one vertex, the matrix and the vertex evaluated once.
TransformarPunto(M, p) == CHOOSE r \in {BloquePorPunto(a, b) : a \in {M}, b \in {p}} : TRUE

\* Mesh.transform(matrix): every vertex of the mesh is transformed.
TransformarMalla(malla, M) == [v \in DOMAIN malla |-> TransformarPunto(M, malla[v])]

----
\* The parts, in the order of the dict piezas (second.py lines 101-109).

Orden == <<"camion", "empujador", "deslizadera", "brazo1", "brazo2", "contenedor", "tapa">>

Nombres == {Orden[i] : i \in 1..Len(Orden)}

\* Largest step count tried; a step count is tried when its angles
\* paso * 90 / (n_pasos - 1) degrees are whole multiples of 15 degrees.
MaxPasos == 7

PasosPosibles == {n \in 0..MaxPasos : n <= 1 \/ 6 % (n - 1) = 0}

\* Largest coordinate, in sixths, of the container's relative translation.
MaxCoord == 6

\* The translations tried for the container and for the lid, in sixths.  The
\* program's own (-0.17888, 0.83539, 0.98371086) is (-1, 5, 6) on this grid.
TraslacionesContenedor == {<<x, y, z>> : x \in {-1, 0}, y \in {0, MaxCoord - 1}, z \in {0, MaxCoord}}

TraslacionesTapa == {<<-1, 0, 0>>, <<0, 0, 0>>}

\* The table of relative translations of the other parts (lines 113-117), in sixths.
TablaFija ==
    [n \in Nombres \ {"contenedor", "tapa"} |->
        CASE n = "camion" -> <<0, 0, 0>>
          [] n = "empujador" -> <<0, 4, -1>>
          [] n = "deslizadera" -> <<-1, 13, 1>>
          [] n = "brazo1" -> <<0, -5, 0>>
          [] n = "brazo2" -> <<0, -5, 0>>]

TraslacionSextos(v) == create_translation_matrix(Sexto(v[1]), Sexto(v[2]), Sexto(v[3]))

\* Objects.  A mesh object is <<kind, part, step>>: the loaded mesh of a part, its
\* copy in the initial scene, or its copy in one animation step.  A matrix object
\* is <<"pos", part>> (the table) or <<"abs", part>> (a product built at 123-131).
Pieza(n) == <<"pieza", n, -1>>

Escena(n) == <<"escena", n, -1>>

Cuadro(n, p) == <<"anim", n, p>>

EsCuadro(o) == o[1] = "anim"

Pos(n) == <<"pos", n>>

Abs(n) == <<"abs", n>>

\* load_stl: the mesh loaded for a part, two vertices, in sixths.
load_stl(n) ==
    LET i == CHOOSE j \in 1..Len(Orden) : Orden[j] = n
    IN  << <<Sexto(6), Cero, Cero>>, <<Cero, Sexto(6), Sexto(i)>> >>

\* A copy that is no copy: the same object.
deepcopy_alias(heap, src, nuevo) == [ref |-> src, heap |-> heap]

\* deepcopy(mesh): a new object with the same vertices.
deepcopy(heap, src, nuevo) == [ref |-> nuevo, heap |-> (nuevo :> heap[src]) @@ heap]

\* mesh.transform(matrix): the object's vertices are replaced in place.
transform(heap, ref, M) == [heap EXCEPT ![ref] = TransformarMalla(heap[ref], M)]

VARIABLES
    pc,                     \* position in the script
    error,                  \* the exception that ended the script, or "ninguno"
    n_pasos,                \* mover_cubo's n_pasos
    paso,                   \* the loop variable of mover_cubo
    indice,                 \* position in the loop over piezas, or over paint's list
    mallas,                 \* the mesh objects: object -> vertices
    matrices,               \* the matrix objects: object -> 4x4 array
    posiciones,             \* dict: part -> matrix object
    transformaciones,       \* dict: part -> matrix object
    figura,                 \* the mesh objects plotted on the figure
    pos_inicial_contenedor, \* mover_cubo's locals
    pos_inicial_tapa,
    traslacion_destino,
    t,
    angulo_actual,
    transformacion_actual,
    transformacion_tapa,    \* the argument of tapa_copia.transform
    contenedor_copia,
    tapa_copia,
    vpl_meshes,             \* paint's list of plots
    emitidos                \* the steps whose frame figure.show has displayed

vars == <<pc, error, n_pasos, paso, indice, mallas, matrices, posiciones,
          transformaciones, figura, pos_inicial_contenedor, pos_inicial_tapa,
          traslacion_destino, t, angulo_actual, transformacion_actual,
          transformacion_tapa, contenedor_copia, tapa_copia, vpl_meshes, emitidos>>

locales == <<pos_inicial_contenedor, pos_inicial_tapa, traslacion_destino, t,
             angulo_actual, transformacion_actual, transformacion_tapa,
             contenedor_copia, tapa_copia>>

\* The state at line 122: the meshes are loaded and the table is built.
InitComun ==
    /\ pc = "componer"
    /\ error = "ninguno"
    /\ paso = 0
    /\ indice = 1
    /\ mallas = [o \in {Pieza(n) : n \in Nombres} |-> load_stl(o[2])]
    /\ posiciones = [n \in Nombres |-> Pos(n)]
    /\ transformaciones = [n \in {} |-> Pos(n)]
    /\ figura = {}
    /\ pos_inicial_contenedor = Pos("contenedor")
    /\ pos_inicial_tapa = Pos("tapa")
    /\ traslacion_destino = <<Cero, Cero, Cero>>
    /\ t = Cero
    /\ angulo_actual = Cero
    /\ transformacion_actual = identity4
    /\ transformacion_tapa = identity4
    /\ contenedor_copia = Pieza("contenedor")
    /\ tapa_copia = Pieza("tapa")
    /\ vpl_meshes = <<>>
    /\ emitidos = <<>>

Init ==
    /\ InitComun
    /\ n_pasos \in PasosPosibles
    /\ \E c \in TraslacionesContenedor, l \in TraslacionesTapa :
          matrices = [o \in {Pos(n) : n \in Nombres} |->
                         CASE o[2] = "contenedor" -> TraslacionSextos(c)
                           [] o[2] = "tapa" -> TraslacionSextos(l)
                           [] OTHER -> TraslacionSextos(TablaFija[o[2]])]

\* A composition that leaves brazo1 out of brazo2's chain and multiplies the
\* lid's chain in the opposite order.
Composicion_desordenada(ms, pos, n) ==
        CASE n = "camion" -> ms[pos["camion"]]
          [] n = "empujador" -> MatMul(ms[pos["camion"]], ms[pos["empujador"]])
          [] n = "deslizadera" -> MatMul(ms[pos["camion"]], ms[pos["deslizadera"]])
          [] n = "brazo1" -> MatMul(MatMul(ms[pos["camion"]], ms[pos["deslizadera"]]), ms[pos["brazo1"]])
          [] n = "brazo2" -> MatMul(MatMul(ms[pos["camion"]], ms[pos["deslizadera"]]), ms[pos["brazo2"]])
          [] n = "contenedor" -> ms[pos["contenedor"]]
          [] n = "tapa" -> MatMul(ms[pos["tapa"]], ms[pos["contenedor"]])

\* The entry of part n at lines 124-131, a product evaluated left to right.
Composicion(ms, pos, n) ==
        CASE n = "camion" -> ms[pos["camion"]]
          [] n = "empujador" -> MatMul(ms[pos["camion"]], ms[pos["empujador"]])
          [] n = "deslizadera" -> MatMul(ms[pos["camion"]], ms[pos["deslizadera"]])
          [] n = "brazo1" -> MatMul(MatMul(ms[pos["camion"]], ms[pos["deslizadera"]]), ms[pos["brazo1"]])
          [] n = "brazo2" -> MatMul(MatMul(MatMul(ms[pos["camion"]], ms[pos["deslizadera"]]), ms[pos["brazo1"]]), ms[pos["brazo2"]])
          [] n = "contenedor" -> ms[pos["contenedor"]]
          [] n = "tapa" -> MatMul(ms[pos["contenedor"]], ms[pos["tapa"]])

\* The parts whose entry of transformaciones is the table's own array (124, 129).
Compartidas == {"camion", "contenedor"}

\* Lines 123-131: the dict transformaciones.  A product is a new array; the
\* entries of camion and contenedor are the arrays of posiciones themselves.
Componer ==
    /\ pc = "componer"
    /\ matrices' = [o \in {Abs(n) : n \in Nombres \ Compartidas} |->
                       Composicion(matrices, posiciones, o[2])] @@ matrices
    /\ transformaciones' = [n \in Nombres |->
                               IF n \in Compartidas THEN posiciones[n] ELSE Abs(n)]
    /\ pc' = "dibujar"
    /\ indice' = 1
    /\ UNCHANGED <<error, n_pasos, paso, mallas, posiciones, figura, locales,
                   vpl_meshes, emitidos>>

\* Lines 146-149, one iteration: the part's mesh is copied, the copy is
\* transformed by the part's absolute pose and plotted.
DibujarPieza ==
    /\ pc = "dibujar"
    /\ indice <= Len(Orden)
    /\ LET nombre == Orden[indice]
           copia == deepcopy(mallas, Pieza(nombre), Escena(nombre))
       IN  /\ mallas' = transform(copia.heap, copia.ref, matrices[transformaciones[nombre]])
           /\ figura' = figura \cup {copia.ref}
    /\ indice' = indice + 1
    /\ UNCHANGED <<pc, error, n_pasos, paso, matrices, posiciones, transformaciones,
                   locales, vpl_meshes, emitidos>>

\* Lines 151-155: the loop over piezas is over; the view is set, the scene is
\* shown and mover_cubo is called.
Mostrar ==
    /\ pc = "dibujar"
    /\ indice > Len(Orden)
    /\ pc' = "mover"
    /\ UNCHANGED <<error, n_pasos, paso, indice, mallas, matrices, posiciones,
                   transformaciones, figura, locales, vpl_meshes, emitidos>>

----
\* mover_cubo(lista_piezas, lista_transformaciones, n_pasos), called at line 155
\* with the dicts piezas and transformaciones.

\* The dict piezas: part -> mesh object.
piezas == [n \in Nombres |-> Pieza(n)]

\* The mesh objects still referenced once the names contenedor_copia and
\* tapa_copia are rebound or dropped: an animation copy lives on only as a plot.
Vivas(heap, fig) == [o \in {x \in DOMAIN heap : ~EsCuadro(x) \/ x \in fig} |-> heap[o]]

\* The destination computed by adding in place, through the view, into the
\* container's pose.
destino_en_sitio(ms, ref) ==
    LET d == SumaVec(Columna(ms[ref]), <<Cero, Cero, Uno>>)
    IN  [matrices |-> [ms EXCEPT ![ref] = create_translation_matrix(d[1], d[2], d[3])],
         destino |-> d]

\* Line 75: traslacion_inicial + [0, 0, 1.0] is a new array; the view
\* traslacion_inicial and the matrix under it are left alone.
destino(ms, ref) ==
    [matrices |-> ms, destino |-> SumaVec(Columna(ms[ref]), <<Cero, Cero, Uno>>)]

\* Lines 68-75.
MoverInicio ==
    /\ pc = "mover"
    /\ pos_inicial_contenedor' = transformaciones["contenedor"]
    /\ pos_inicial_tapa' = transformaciones["tapa"]
    /\ LET r == destino(matrices, transformaciones["contenedor"])
       IN  /\ matrices' = r.matrices
           /\ traslacion_destino' = r.destino
    /\ paso' = 0
    /\ pc' = "bucle"
    /\ UNCHANGED <<error, n_pasos, indice, mallas, posiciones, transformaciones, figura,
                   t, angulo_actual, transformacion_actual, transformacion_tapa,
                   contenedor_copia, tapa_copia, vpl_meshes, emitidos>>

\* A parameter that starts one step late.
parametro_tardio(p, n) == Cociente(p + 1, n - 1)

\* Line 78: t = paso / (n_pasos - 1).
parametro(p, n) == Cociente(p, n - 1)

\* Line 79: traslacion_inicial + t * (traslacion_destino - traslacion_inicial).
interpolar(inicial, final, u) == SumaVec(inicial, EscalaVec(u, RestaVec(final, inicial)))

\* The product taken in the opposite order.
paso_transformacion_invertida(traslacion, rotacion) == MatMul(rotacion, traslacion)

\* Line 85: matriz_traslacion @ matriz_rotacion.
paso_transformacion(traslacion, rotacion) == MatMul(traslacion, rotacion)

\* A range that stops one value early.
en_rango_corto(p, n) == p < n - 1

\* Line 77: whether range(n_pasos) still yields the value p.
en_rango(p, n) == p < n

\* Line 77, range(n_pasos) exhausted: mover_cubo returns and the script ends.
BucleFin ==
    /\ pc = "bucle"
    /\ ~en_rango(paso, n_pasos)
    /\ pc' = "fin"
    /\ mallas' = Vivas(mallas, figura)
    /\ UNCHANGED <<error, n_pasos, paso, indice, matrices, posiciones, transformaciones,
                   figura, locales, vpl_meshes, emitidos>>

\* Line 78 with n_pasos = 1: the int division 0 / 0 raises ZeroDivisionError,
\* which nothing catches.
PasoError ==
    /\ pc = "bucle"
    /\ en_rango(paso, n_pasos)
    /\ n_pasos - 1 = 0
    /\ pc' = "error"
    /\ error' = "ZeroDivisionError"
    /\ UNCHANGED <<n_pasos, paso, indice, mallas, matrices, posiciones, transformaciones,
                   figura, locales, vpl_meshes, emitidos>>

\* Lines 78-93 up to the call of paint: the step's transform, the two copies
\* and their transforms.
PasoCalcular ==
    /\ pc = "bucle"
    /\ en_rango(paso, n_pasos)
    /\ n_pasos - 1 # 0
    /\ LET traslacion_inicial == Columna(matrices[pos_inicial_contenedor])
           u == parametro(paso, n_pasos)
           traslacion_actual == interpolar(traslacion_inicial, traslacion_destino, u)
           matriz_traslacion == create_translation_matrix(traslacion_actual[1],
                                    traslacion_actual[2], traslacion_actual[3])
           angulo == Mul(u, radians(90))
           matriz_rotacion == create_rotation_matrix("z", angulo)
           actual == paso_transformacion(matriz_traslacion, matriz_rotacion)
           de_tapa == MatMul(actual, matrices[pos_inicial_tapa])
           c1 == deepcopy(Vivas(mallas, figura), piezas["contenedor"], Cuadro("contenedor", paso))
           h1 == transform(c1.heap, c1.ref, actual)
           c2 == deepcopy(h1, piezas["tapa"], Cuadro("tapa", paso))
           h2 == transform(c2.heap, c2.ref, de_tapa)
       IN  /\ t' = u
           /\ angulo_actual' = angulo
           /\ transformacion_actual' = actual
           /\ transformacion_tapa' = de_tapa
           /\ contenedor_copia' = c1.ref
           /\ tapa_copia' = c2.ref
           /\ mallas' = h2
    /\ pc' = "paint_plot"
    /\ indice' = 1
    /\ vpl_meshes' = <<>>
    /\ UNCHANGED <<error, n_pasos, paso, matrices, posiciones, transformaciones, figura,
                   pos_inicial_contenedor, pos_inicial_tapa, traslacion_destino, emitidos>>

\* paint's argument at line 93.
lista_mallas == <<contenedor_copia, tapa_copia>>

\* Lines 48-50, one iteration: the mesh is plotted and the plot is kept.
PaintPlot ==
    /\ pc = "paint_plot"
    /\ indice <= Len(lista_mallas)
    /\ figura' = figura \cup {lista_mallas[indice]}
    /\ vpl_meshes' = Append(vpl_meshes, lista_mallas[indice])
    /\ indice' = indice + 1
    /\ UNCHANGED <<pc, error, n_pasos, paso, mallas, matrices, posiciones,
                   transformaciones, locales, emitidos>>

\* Lines 52-55: the figure is updated and shown, then the script sleeps.
PaintShow ==
    /\ pc = "paint_plot"
    /\ indice > Len(lista_mallas)
    /\ emitidos' = Append(emitidos, paso)
    /\ pc' = "paint_remove"
    /\ indice' = 1
    /\ UNCHANGED <<error, n_pasos, paso, mallas, matrices, posiciones, transformaciones,
                   figura, locales, vpl_meshes>>

\* A removal that leaves the plot on the figure.
remove_plot_nulo(fig, plot) == fig

\* figure.remove_plot(plot).
remove_plot(fig, plot) == fig \ {plot}

\* Lines 57-58, one iteration.
PaintRemove ==
    /\ pc = "paint_remove"
    /\ indice <= Len(vpl_meshes)
    /\ figura' = remove_plot(figura, vpl_meshes[indice])
    /\ indice' = indice + 1
    /\ UNCHANGED <<pc, error, n_pasos, paso, mallas, matrices, posiciones,
                   transformaciones, locales, vpl_meshes, emitidos>>

\* paint returns and the loop of line 77 takes the next value of paso.
PaintReturn ==
    /\ pc = "paint_remove"
    /\ indice > Len(vpl_meshes)
    /\ paso' = paso + 1
    /\ pc' = "bucle"
    /\ UNCHANGED <<error, n_pasos, indice, mallas, matrices, posiciones, transformaciones,
                   figura, locales, vpl_meshes, emitidos>>

Next ==
    \/ Componer
    \/ DibujarPieza
    \/ Mostrar
    \/ MoverInicio
    \/ BucleFin
    \/ PasoError
    \/ PasoCalcular
    \/ PaintPlot
    \/ PaintShow
    \/ PaintRemove
    \/ PaintReturn

Spec == Init /\ [][Next]_vars

----
\* The composition of 123-131 as a function of the table: the table is drawn
\* from translations and quarter turns, and Componer is applied to it.

Grados90 == radians(90)

TransformadasCadena ==
    { create_translation_matrix(Uno, Cero, Cero),
      create_translation_matrix(Cero, Uno, Cero),
      create_translation_matrix(Cero, Cero, Uno),
      create_rotation_matrix("z", Grados90),
      create_rotation_matrix("x", Grados90) }

InitCadena ==
    /\ InitComun
    /\ n_pasos = 2
    /\ \E ca \in TransformadasCadena, de \in TransformadasCadena,
          b1 \in TransformadasCadena, b2 \in TransformadasCadena,
          co \in {create_translation_matrix(Uno, Cero, Cero), create_rotation_matrix("z", Grados90)},
          ta \in {create_translation_matrix(Cero, Uno, Cero), create_rotation_matrix("x", Grados90)},
          em \in {create_rotation_matrix("y", Grados90)} :
          matrices = [o \in {Pos(n) : n \in Nombres} |->
                         CASE o[2] = "camion" -> ca
                           [] o[2] = "empujador" -> em
                           [] o[2] = "deslizadera" -> de
                           [] o[2] = "brazo1" -> b1
                           [] o[2] = "brazo2" -> b2
                           [] o[2] = "contenedor" -> co
                           [] o[2] = "tapa" -> ta]

NextCadena == Componer

SpecCadena == InitCadena /\ [][NextCadena]_vars

----
\* Properties.

\* The positions at which the locals of the current step are computed.
EnCuadro == pc \in {"paint_plot", "paint_remove"}

\* The container's base translation: the column of its pose.
TraslacionBase == Columna(matrices[transformaciones["contenedor"]])

\* The 3x3 block of a quarter turn about z.
CuartoDeVueltaZ ==
    << <<Cero, Neg(Uno), Cero>>,
       <<Uno, Cero, Cero>>,
       <<Cero, Cero, Uno>> >>

\* A vertex turned a quarter turn about z: (x, y, z) -> (-y, x, z).
GirarZ(v) == <<Neg(v[2]), v[1], v[3]>>

\* C1.  At step 0 the container's transform has the base translation and the
\* identity rotation (angle 0); at step n_pasos - 1 it has the base translation
\* plus (0, 0, 1) and a quarter turn about z (angle radians(90)).  The copy of
\* the container's mesh is placed accordingly.
ExtremosDeLaAnimacion ==
    EnCuadro =>
        /\ paso = 0 =>
              /\ angulo_actual = Cero
              /\ Columna(transformacion_actual) = TraslacionBase
              /\ Bloque(transformacion_actual) = Bloque(identity4)
              /\ \A v \in DOMAIN load_stl("contenedor") :
                    mallas[contenedor_copia][v] = SumaVec(load_stl("contenedor")[v], TraslacionBase)
        /\ paso = n_pasos - 1 =>
              /\ angulo_actual = radians(90)
              /\ Columna(transformacion_actual) = SumaVec(TraslacionBase, <<Cero, Cero, Uno>>)
              /\ Bloque(transformacion_actual) = CuartoDeVueltaZ
              /\ \A v \in DOMAIN load_stl("contenedor") :
                    mallas[contenedor_copia][v] =
                        SumaVec(GirarZ(load_stl("contenedor")[v]),
                                SumaVec(TraslacionBase, <<Cero, Cero, Uno>>))

\* The last of 4 steps has been computed for a container away from the origin.
TestigoExtremos ==
    /\ pc = "paint_plot"
    /\ n_pasos = 4
    /\ paso = 3
    /\ TraslacionBase = <<Sexto(-1), Sexto(MaxCoord - 1), Sexto(MaxCoord)>>
    /\ Columna(transformacion_actual) = <<Sexto(-1), Sexto(MaxCoord - 1), Sexto(MaxCoord + 6)>>

\* C2.  At every step the lid's transform is the step transform times the lid's
\* relative transform, the container's base translation not being applied again.
TapaSigueAlContenedor ==
    EnCuadro => transformacion_tapa = MatMul(transformacion_actual, matrices[posiciones["tapa"]])

\* C3.  With n_pasos below 2 the animation never returns normally, and it ends
\* with InvalidPlanError before any frame is shown.
PlanInvalidoRechazado ==
    n_pasos < 2 =>
        /\ pc # "fin"
        /\ pc = "error" => error = "InvalidPlanError"
        /\ emitidos = <<>>


\* The parent of each part in the assembly; camion and contenedor are roots.
padre ==
    [n \in Nombres \ {"camion", "contenedor"} |->
        CASE n = "empujador" -> "camion"
          [] n = "deslizadera" -> "camion"
          [] n = "brazo1" -> "deslizadera"
          [] n = "brazo2" -> "brazo1"
          [] n = "tapa" -> "contenedor"]

\* A point of the part's frame taken to the world: the part's own relative
\* transform acts first, then its parent's, up to the root.
RECURSIVE AlMundo(_, _)
AlMundo(n, p) ==
    LET q == TransformarPunto(matrices[posiciones[n]], p)
    IN  IF n \in DOMAIN padre THEN AlMundo(padre[n], q) ELSE q

\* The part and its ancestors.
RECURSIVE Cadena(_)
Cadena(n) == IF n \in DOMAIN padre THEN {n} \cup Cadena(padre[n]) ELSE {n}

EsTraslacion(M) == Bloque(M) = Bloque(identity4)

\* The sum of the translation columns of the part's chain.
RECURSIVE SumaCadena(_)
SumaCadena(n) ==
    LET c == Columna(matrices[posiciones[n]])
    IN  IF n \in DOMAIN padre THEN SumaVec(SumaCadena(padre[n]), c) ELSE c

Origen == <<Cero, Cero, Cero>>

\* The origin and the three unit points: an affine map is fixed by its values there.
PuntosDePrueba == {Origen, <<Uno, Cero, Cero>>, <<Cero, Uno, Cero>>, <<Cero, Cero, Uno>>}

\* C4.  Each part's absolute pose is the product of the relative transforms of
\* its chain, the root's leftmost and the part's own rightmost: it takes a point
\* where the part's own transform, then its parent's, ..., then the root's take
\* it.  For a chain of pure translations it takes the origin to the sum of the
\* chain's translations.
PoseAbsolutaEsProductoDeLaCadena ==
    pc = "dibujar" =>
        \A n \in Nombres :
            /\ \A p \in PuntosDePrueba :
                  TransformarPunto(matrices[transformaciones[n]], p) = AlMundo(n, p)
            /\ matrices[transformaciones[n]][4] = <<Cero, Cero, Cero, Uno>>
            /\ (\A m \in Cadena(n) : EsTraslacion(matrices[posiciones[m]])) =>
                  TransformarPunto(matrices[transformaciones[n]], Origen) = SumaCadena(n)

\* root -> mid -> leaf with translations (1,0,0), (0,1,0), (0,0,1): the leaf's
\* pose takes the origin to (1,1,1); and brazo2, a quarter turn about x, follows.
TestigoCadena ==
    /\ pc = "dibujar"
    /\ matrices[posiciones["camion"]] = create_translation_matrix(Uno, Cero, Cero)
    /\ matrices[posiciones["deslizadera"]] = create_translation_matrix(Cero, Uno, Cero)
    /\ matrices[posiciones["brazo1"]] = create_translation_matrix(Cero, Cero, Uno)
    /\ matrices[posiciones["brazo2"]] = create_rotation_matrix("x", Grados90)
    /\ TransformarPunto(matrices[transformaciones["brazo1"]], Origen) = <<Uno, Uno, Uno>>
    /\ matrices[posiciones["contenedor"]] = create_rotation_matrix("z", Grados90)
    /\ matrices[posiciones["tapa"]] = create_translation_matrix(Cero, Uno, Cero)
    /\ TransformarPunto(matrices[transformaciones["tapa"]], Origen) = <<Neg(Uno), Cero, Cero>>

\* C5.  Every loaded mesh of the dict piezas keeps the vertices it was loaded with.
OriginalesIntactos ==
    \A n \in Nombres : mallas[piezas[n]] = load_stl(n)

\* Second step under way: the scene is drawn, one frame is over, and the copies
\* of the current frame are transformed.
TestigoOriginales ==
    /\ pc = "paint_remove"
    /\ paso = 1
    /\ \A n \in Nombres : Escena(n) \in DOMAIN mallas
    /\ mallas[Escena("brazo2")] # load_stl("brazo2")
    /\ mallas[contenedor_copia] # load_stl("contenedor")
    /\ mallas[tapa_copia] # load_stl("tapa")

\* C6.  t is 0 at the first step and 1 at the last, stays within [0, 1], and
\* each step's t is greater than the step before's.
ParametroMonotono ==
    /\ [](EnCuadro =>
            /\ EsRacional(t)
            /\ MenorIgual(Cero, t) /\ MenorIgual(t, Uno)
            /\ paso = 0 => t = Cero
            /\ paso = n_pasos - 1 => t = Uno)
    /\ [][(pc = "bucle" /\ pc' = "paint_plot" /\ paso > 0) => Menor(t, t')]_vars

\* The middle step of 7: t is one half.
TestigoParametro ==
    /\ pc = "paint_plot"
    /\ n_pasos = 7
    /\ paso = 3
    /\ t = Cociente(1, 2)

\* C7.  With n_pasos >= 2 the frames shown are those of the steps 0, 1, 2, ...
\* in that order, each once; the script ends only after all n_pasos of them, it
\* raises nothing, and until it has ended it can take a step.
CuadrosEnOrden ==
    n_pasos >= 2 =>
        /\ emitidos = [i \in 1..Len(emitidos) |-> i - 1]
        /\ Len(emitidos) <= n_pasos
        /\ pc = "fin" => Len(emitidos) = n_pasos
        /\ (pc = "paint_remove" /\ indice = 1) =>
              /\ emitidos[Len(emitidos)] = paso
              /\ {Cuadro("contenedor", paso), Cuadro("tapa", paso)} \subseteq figura
        /\ pc # "error"
        /\ pc = "fin" \/ ENABLED Next

\* The animation of 7 steps is over.
TestigoCuadros ==
    /\ pc = "fin"
    /\ n_pasos = 7
    /\ emitidos = <<0, 1, 2, 3, 4, 5, 6>>

\* C8.  An animation copy is on the figure only inside paint and only if it is
\* a copy of the current step: paint removes what it plotted before it returns.
MostrarYDescartar ==
    \A o \in figura : EsCuadro(o) => (EnCuadro /\ o[3] = paso)

\* The second frame is shown: both its copies are on the figure, with the scene.
TestigoMostrar ==
    /\ pc = "paint_remove"
    /\ indice = 1
    /\ paso = 1
    /\ figura = {Escena(n) : n \in Nombres} \cup {Cuadro("contenedor", 1), Cuadro("tapa", 1)}

\* C9.  From the call of mover_cubo on, no step changes a matrix of the table
\* or of the absolute poses, nor an entry of either dict.
PosesSinCambio ==
    [][(pc \in {"mover", "bucle", "paint_plot", "paint_remove"}) =>
          (matrices' = matrices /\ posiciones' = posiciones
              /\ transformaciones' = transformaciones)]_vars

\* The animation of 4 steps is over and the container's pose is the table's.
TestigoPoses ==
    /\ pc = "fin"
    /\ n_pasos = 4
    /\ Len(emitidos) = 4
    /\ matrices[transformaciones["contenedor"]] = TraslacionSextos(<<-1, MaxCoord - 1, MaxCoord>>)
    /\ traslacion_destino = <<Sexto(-1), Sexto(MaxCoord - 1), Sexto(MaxCoord + 6)>>

Traspuesta3(R) == [i \in 1..3 |-> [j \in 1..3 |-> R[j][i]]]

Producto3(A, B) ==
    [i \in 1..3 |-> [j \in 1..3 |->
        Suma(Mul(A[i][1], B[1][j]), Suma(Mul(A[i][2], B[2][j]), Mul(A[i][3], B[3][j])))]]

Determinante3(R) ==
    Suma(Resta(Mul(R[1][1], Resta(Mul(R[2][2], R[3][3]), Mul(R[2][3], R[3][2]))),
               Mul(R[1][2], Resta(Mul(R[2][1], R[3][3]), Mul(R[2][3], R[3][1])))),
         Mul(R[1][3], Resta(Mul(R[2][1], R[3][2]), Mul(R[2][2], R[3][1]))))

\* Bottom row [0, 0, 0, 1] and a 3x3 block that is orthonormal with determinant 1.
EsRigida(M) ==
    /\ M[4] = <<Cero, Cero, Cero, Uno>>
    /\ Producto3(Traspuesta3(Bloque(M)), Bloque(M)) = Bloque(identity4)
    /\ Determinante3(Bloque(M)) = Uno

Ejes == {"x", "y", "z", "w"}

\* C10.  Every matrix of the program is rigid: those of the table and of the
\* absolute poses, each step's transform of the container and of the lid, and
\* what the builders give, about any axis, for the current angle, for every
\* multiple of 15 degrees and for the current translation; a rotation by the
\* angle 0 is the identity and a translation has the identity block.
TransformadasRigidas ==
    /\ \A o \in DOMAIN matrices : EsRigida(matrices[o])
    /\ EsRigida(transformacion_actual)
    /\ EsRigida(transformacion_tapa)
    /\ \A eje \in Ejes :
          /\ EsRigida(create_rotation_matrix(eje, angulo_actual))
          /\ create_rotation_matrix(eje, Cero) = identity4
          /\ pc = "bucle" => \A k \in 0..23 : EsRigida(create_rotation_matrix(eje, Entero(k)))
    /\ LET m == create_translation_matrix(traslacion_destino[1], traslacion_destino[2],
                                          traslacion_destino[3])
       IN  EsRigida(m) /\ EsTraslacion(m)

\* A step at 15 degrees: the container's and the lid's transforms are turned.
TestigoRigidas ==
    /\ pc = "paint_plot"
    /\ n_pasos = 7
    /\ paso = 1
    /\ angulo_actual = radians(15)
    /\ transformacion_actual[1][1] = <<0, Escala \div 4, 0, Escala \div 4>>
    /\ Bloque(transformacion_tapa) = Bloque(transformacion_actual)
    /\ Bloque(transformacion_tapa) # Bloque(identity4)

====
